---- MODULE Spec2Model ----
(***************************************************************************)
(* Model of the STATIZ prediction acquisition-and-cache subsystem:         *)
(*   statiz_predict.py  crawler with a file cache (writer side)            *)
(*   statiz_reader.py   remote JSON -> local cache and date resolution     *)
(* Time is counted in minutes (UTC); text is a sequence of one-character   *)
(* strings; an Optional value is a record [has, v].                         *)
(***************************************************************************)
EXTENDS Integers, Sequences, FiniteSets, TLC

VARIABLES
    now,        \* the clock, minutes UTC
    file,       \* the cache file at CACHE_PATH
    page,       \* the listing page of the source: its slides
    detail,     \* the detail page of each s_no
    obs,        \* the last call of the crawler: arguments, result, effects
    lags,       \* the durations a call of the crawler can take
    ptext,      \* text of a percent element (litem.text)
    pstyle,     \* its style attribute
    pout,       \* result of the percent extraction, [phase, val]
    store,      \* the cache document the reader has loaded
    rtoday,     \* today's date string (UTC+9) at the reader
    robs,       \* the last result of get_today_predlist
    lfile,      \* the reader's local cache file
    bfile,      \* the bundled snapshot file
    mobs,       \* the last call of fetch_remote_into_cache
    inodes,     \* file system: the content of each inode
    paths,      \* file system: the inode of <path>.tmp and of <path>
    wr,         \* each writer's position in its save
    snapshot,   \* what the reader last loaded from the live file
    fanvote,    \* the fan-vote snapshot document fanvote.html
    nobs        \* the last fan-vote lookup of build_payload_for_team

cvars == <<now, file, page, detail, obs, lags>>
pvars == <<ptext, pstyle, pout>>
rvars == <<store, rtoday, robs>>
mvars == <<lfile, bfile, mobs>>

avars == <<inodes, paths, wr, snapshot>>
nvars == <<fanvote, nobs>>

vars == <<cvars, pvars, rvars, mvars, avars, nvars>>

\* what the crawler leaves alone
NotCrawl == <<pvars, rvars, mvars, avars, nvars>>
\* what the percent extraction leaves alone
NotPct == <<cvars, rvars, mvars, avars, nvars>>
\* what the reader's date resolution leaves alone
NotReader == <<cvars, pvars, mvars, avars, nvars>>

----------------------------------------------------------------------------
(* Optional values: None is a first-class value distinct from 0 and "".     *)

NoPct == [has |-> FALSE, v |-> 0]
SomePct(x) == [has |-> TRUE, v |-> x]
NoStr == [has |-> FALSE, v |-> ""]
SomeStr(s) == [has |-> TRUE, v |-> s]

----------------------------------------------------------------------------
(* Text and the regular expressions of the parsing utilities.               *)

MaxTextLen == 4

Digits == {"0", "1", "5"}
DigitVal == [c \in Digits |-> CASE c = "0" -> 0 [] c = "1" -> 1 [] c = "5" -> 5]
\* "w" stands for the literal "width:" of a style attribute
Alphabet == Digits \cup {".", "%", " ", "w"}

RECURSIVE Pow10(_)
Pow10(n) == IF n = 0 THEN 1 ELSE 10 * Pow10(n - 1)

\* a float is held as an integer number of 1/Scale
Scale == Pow10(MaxTextLen)

IsDigit(c) == c \in Digits
IsSpace(c) == c = " "

RECURSIVE DigitRunEnd(_, _)
DigitRunEnd(t, i) ==
    IF i <= Len(t) /\ IsDigit(t[i]) THEN DigitRunEnd(t, i + 1) ELSE i

RECURSIVE SpaceRunEnd(_, _)
SpaceRunEnd(t, i) ==
    IF i <= Len(t) /\ IsSpace(t[i]) THEN SpaceRunEnd(t, i + 1) ELSE i

\* integer value of the digits t[i..j-1]
RECURSIVE DigitsInt(_, _, _)
DigitsInt(t, i, j) ==
    IF j <= i THEN 0 ELSE 10 * DigitsInt(t, i, j - 1) + DigitVal[t[j - 1]]

\* float(m.group(1)) for integer digits t[i..e1-1] and fraction digits t[f..e2-1]
ToFloat(t, i, e1, f, e2) ==
    DigitsInt(t, i, e1) * Scale
      + (IF e2 > f THEN (DigitsInt(t, f, e2) * Scale) \div Pow10(e2 - f) ELSE 0)

\* (\d+(?:\.\d+)?)\s*%  anchored at position i
NumberAt(t, i) ==
    LET e1 == DigitRunEnd(t, i)
        hasFrac == e1 <= Len(t) /\ t[e1] = "." /\ DigitRunEnd(t, e1 + 1) > e1 + 1
        e2 == IF hasFrac THEN DigitRunEnd(t, e1 + 1) ELSE e1
        s2 == SpaceRunEnd(t, e2)
        s1 == SpaceRunEnd(t, e1)
    IN  IF e1 = i THEN NoPct
        ELSE IF hasFrac /\ s2 <= Len(t) /\ t[s2] = "%"
             THEN SomePct(ToFloat(t, i, e1, e1 + 1, e2))
        ELSE IF s1 <= Len(t) /\ t[s1] = "%"
             THEN SomePct(ToFloat(t, i, e1, e1, e1))
        ELSE NoPct

\* re.sub(r"\s+", " ", s or "").strip()
RECURSIVE Collapse(_)
Collapse(t) ==
    IF t = <<>> THEN <<>>
    ELSE IF IsSpace(Head(t))
         THEN <<" ">> \o Collapse(SubSeq(t, SpaceRunEnd(t, 1), Len(t)))
         ELSE <<Head(t)>> \o Collapse(Tail(t))

_clean_text(s) ==
    LET c == Collapse(s)
        a == IF c # <<>> /\ IsSpace(c[1]) THEN Tail(c) ELSE c
    IN  IF a # <<>> /\ IsSpace(a[Len(a)]) THEN SubSeq(a, 1, Len(a) - 1) ELSE a

\* re.search(r"(\d+(?:\.\d+)?)\s*%", txt or ""): leftmost match
_extract_percent(txt) ==
    LET hits == {i \in 1..Len(txt) : NumberAt(txt, i).has}
    IN  IF hits = {} THEN NoPct
        ELSE NumberAt(txt, CHOOSE i \in hits : \A j \in hits : i <= j)

\* re.search(r"width:\s*(\d+(?:\.\d+)?)\s*%", style or ""): leftmost match
_percent_from_style(style) ==
    LET hits == {i \in 1..Len(style) :
                    style[i] = "w" /\ NumberAt(style, SpaceRunEnd(style, i + 1)).has}
    IN  IF hits = {} THEN NoPct
        ELSE LET i0 == CHOOSE i \in hits : \A j \in hits : i <= j
             IN  NumberAt(style, SpaceRunEnd(style, i0 + 1))

\* Python truthiness of an Optional[float]: None and 0.0 are falsy
TruthyPct(p) == p.has /\ p.v # 0

\* a or b
OrPct(a, b) == IF TruthyPct(a) THEN a ELSE b

\* _extract_percent(_clean_text(item.text)) or _percent_from_style(item.get_attribute("style")),
\* then float(x) if x is not None else None
PercentOfItem(text, style) ==
    OrPct(_extract_percent(_clean_text(text)), _percent_from_style(style))

----------------------------------------------------------------------------
(* Percent extraction applied to every bounded text and style.              *)

RECURSIVE SeqsUpTo(_, _)
SeqsUpTo(S, n) ==
    IF n = 0 THEN {<<>>}
    ELSE LET prev == SeqsUpTo(S, n - 1)
         IN  prev \cup {Append(s, c) : s \in prev, c \in S}

Texts == SeqsUpTo(Alphabet, MaxTextLen)
\* style attributes: empty, or a width declaration
Styles == {<<>>, <<"w", "0", "%">>, <<"w", " ", "5", "%">>, <<"w", "1", "0">>}

PctIdle == [phase |-> "idle", val |-> NoPct, raw |-> NoPct]

PctInit ==
    /\ ptext \in Texts
    /\ pstyle \in Styles
    /\ pout = PctIdle

PctFixed ==
    /\ ptext = <<>>
    /\ pstyle = <<>>
    /\ pout = PctIdle

ExtractItem ==
    /\ pout.phase = "idle"
    /\ pout' = [phase |-> "done",
                val |-> PercentOfItem(ptext, pstyle),
                raw |-> _extract_percent(_clean_text(ptext))]
    /\ UNCHANGED <<ptext, pstyle>>
    /\ UNCHANGED NotPct

PctNext == ExtractItem

----------------------------------------------------------------------------
(* Clock and cache file of statiz_predict.py.                               *)

DEFAULT_TTL_MIN == 30
KstOffsetMin == 540
DayMin == 1440
\* the clock starts at StartMin (23:00 UTC+9) and moves in steps of Quantum,
\* MaxTicks times at most: the last step reaches midnight UTC+9
StartMin == 840
Quantum == 30
MaxTicks == 2
MaxNow == StartMin + MaxTicks * Quantum

_now_kst(t) == t + KstOffsetMin
\* _now_kst().strftime("%Y-%m-%d"): the civil date, as a day number
_today_kst_str(t) == _now_kst(t) \div DayMin

NoSNo == 0
SNos == {1, 2}

PredlistKey(d) == [ns |-> "predlist", d |-> d, s |-> NoSNo]
PredKey(d, s) == [ns |-> "pred", d |-> d, s |-> s]
SNosKey(d) == [ns |-> "s_nos", d |-> d, s |-> NoSNo]

EmptyDoc == <<>>
Missing == [kind |-> "missing", doc |-> EmptyDoc]

\* dict.get / item assignment on a document held as a function
Has(doc, k) == k \in DOMAIN doc
Put(doc, k, e) == [x \in DOMAIN doc \cup {k} |-> IF x = k THEN e ELSE doc[x]]

\* json.load taking what it could read of an unreadable file
_load_cache_Lenient(f) == IF f.kind = "missing" THEN EmptyDoc ELSE f.doc

_load_cache(f) == IF f.kind = "doc" THEN f.doc ELSE EmptyDoc

\* the file after _save_cache(cache): the temporary file renamed over it
_save_cache(cache) == [kind |-> "doc", doc |-> cache]

\* datetime.fromisoformat(item.get("ts")) of a timestamp written by
\* _now_kst().isoformat(timespec="seconds"), then (_now_kst() - ts) < ttl
_is_fresh_Inclusive(item, ttl_minutes, t) == (_now_kst(t) - item.ts) <= ttl_minutes

_is_fresh(item, ttl_minutes, t) == (_now_kst(t) - item.ts) < ttl_minutes

Entry(t, data) == [ts |-> _now_kst(t), data |-> data]

\* item and _is_fresh(item, ttl_minutes)
FreshHit(cache, k, t) == Has(cache, k) /\ _is_fresh(cache[k], DEFAULT_TTL_MIN, t)

----------------------------------------------------------------------------
(* Records and their extraction from a slide or a detail page.              *)

Fields == {"left_team", "right_team", "left_percent", "right_percent", "predict_text"}

Row(s, lt, rt, lp, rp, txt) ==
    [s_no |-> s, left_team |-> lt, right_team |-> rt,
     left_percent |-> lp, right_percent |-> rp, predict_text |-> txt]

\* lt.split()[-1] if lt else None, on the words of the cleaned innerText
LastWord(ws) == IF ws # <<>> THEN SomeStr(ws[Len(ws)]) ELSE NoStr
\* rt.split()[0] if rt else None
FirstWord(ws) == IF ws # <<>> THEN SomeStr(ws[1]) ELSE NoStr

\* the element block of a slide or a detail page: NoSuchElementException leaves
\* both values of the block None
TeamsOf(el) ==
    IF el.hasTeams THEN <<LastWord(el.lt), FirstWord(el.rt)>> ELSE <<NoStr, NoStr>>

PercentsOf(el) ==
    IF el.hasPct
    THEN <<PercentOfItem(el.ltext, el.lstyle), PercentOfItem(el.rtext, el.rstyle)>>
    ELSE <<NoPct, NoPct>>

\* one slide of the listing page: a row when it carries an s_no
SlideRows(sl) ==
    IF sl.sno = NoSNo THEN <<>>
    ELSE <<Row(sl.sno, TeamsOf(sl)[1], TeamsOf(sl)[2],
               PercentsOf(sl)[1], PercentsOf(sl)[2], NoStr)>>

RECURSIVE RowsOfSlides(_)
RowsOfSlides(slides) ==
    IF slides = <<>> THEN <<>>
    ELSE SlideRows(Head(slides)) \o RowsOfSlides(Tail(slides))

\* uniq_rows: the first row of each s_no, in order
RECURSIVE UniqRows(_, _)
UniqRows(rows, seen) ==
    IF rows = <<>> THEN <<>>
    ELSE IF Head(rows).s_no \in seen THEN UniqRows(Tail(rows), seen)
    ELSE <<Head(rows)>> \o UniqRows(Tail(rows), seen \cup {Head(rows).s_no})

\* r.get("left_team") and r.get("right_team") and r.get("left_percent") is not None
\* and r.get("right_percent") is not None
TruthyStr(o) == o.has /\ o.v # ""
IsCompleteRow(r) ==
    /\ TruthyStr(r.left_team)
    /\ TruthyStr(r.right_team)
    /\ r.left_percent.has
    /\ r.right_percent.has

CompleteOf(rows) == SelectSeq(rows, IsCompleteRow)

\* _parse_single_prediction(driver, s_no)
_parse_single_prediction(pg, s) ==
    Row(s, TeamsOf(pg)[1], TeamsOf(pg)[2], PercentsOf(pg)[1], PercentsOf(pg)[2],
        IF pg.hasText THEN SomeStr(pg.text) ELSE NoStr)

----------------------------------------------------------------------------
(* The source: a listing page of slides and one detail page per s_no.       *)

MaxSlides == 2

Elements(hasTeams, lt, rt, hasPct, ltext, lstyle, rtext, rstyle) ==
    [hasTeams |-> hasTeams, lt |-> lt, rt |-> rt, hasPct |-> hasPct,
     ltext |-> ltext, lstyle |-> lstyle, rtext |-> rtext, rstyle |-> rstyle]

Slide(sno, el) == [x \in DOMAIN el \cup {"sno"} |-> IF x = "sno" THEN sno ELSE el[x]]

DetailPage(el, hasText, text) ==
    [x \in DOMAIN el \cup {"hasText", "text"} |->
        IF x = "hasText" THEN hasText ELSE IF x = "text" THEN text ELSE el[x]]


\* a complete slide; its right item reads "0%" with width: 0% in its style
ElFull == Elements(TRUE, <<"1", "KIA">>, <<"LG", "2">>, TRUE, <<"5", "0", "%">>, <<>>, <<"0", "%">>, <<"w", "0", "%">>)
\* the left team text is empty; the left item reads "0%" with no width in its style
ElZeroText == Elements(TRUE, <<>>, <<"NC">>, TRUE, <<"0", "%">>, <<>>, <<"5", "0", "%">>, <<>>)
\* a detail page that disagrees with the listing; its left item reads "0%" with
\* width: 0% in its style
ElOther == Elements(TRUE, <<"SSG">>, <<"KT">>, TRUE, <<"0", "%">>, <<"w", "0", "%">>, <<"1", "5", "%">>, <<>>)
\* a detail page without team names, its left item "0%" with no width
ElPartial == Elements(FALSE, <<>>, <<>>, TRUE, <<"0", "%">>, <<>>, <<"1", "5", "%">>, <<>>)

Slides == {Slide(1, ElFull), Slide(2, ElZeroText), Slide(NoSNo, ElFull)}

Pages == SeqsUpTo(Slides, MaxSlides)

\* a page that shows one game twice, the first slide without its left team
\* name (a slider in loop mode repeats its slides)
LoopPage == <<Slide(1, ElZeroText), Slide(1, ElFull)>>

DetailPages == {DetailPage(ElOther, TRUE, "text"), DetailPage(ElPartial, FALSE, "")}

\* every detail page of the day has the same shape
DetailMaps == {[s \in SNos |-> p] : p \in DetailPages}

Args == [use_cache : BOOLEAN, force_refresh : BOOLEAN, fill_detail : BOOLEAN]

----------------------------------------------------------------------------
(* The operations of statiz_predict.py, each as the outcome of one call:    *)
(* the exception raised, the value returned, the cache file it leaves, and  *)
(* what it did on the way.                                                   *)

NoDetailed == <<>>

\* the rows the listing pass extracts from each page, tabulated
ListingOf == [pg \in Pages \cup {LoopPage} |-> UniqRows(RowsOfSlides(pg), {})]
\* the record _parse_single_prediction extracts from each detail page, tabulated
Parsed == [p \in DetailPages |-> [s \in SNos |-> _parse_single_prediction(p, s)]]


Outcome(f) ==
    [exc |-> "none", ret |-> <<>>, file |-> f,
     hit |-> FALSE,         \* served from a fresh cache entry
     gate |-> FALSE,        \* the completeness gate was reached
     wrote |-> FALSE,       \* the gate wrote the predlist entry
     cand |-> <<>>,         \* the candidate set at the gate
     rows |-> <<>>,         \* the listing rows of a hybrid cycle
     detailed |-> NoDetailed, \* its detail records, by s_no
     extraction |-> "none", \* "ok", or "failed" when it failed entirely
     tried |-> <<>>,        \* the strategies of identifier discovery that ran
     loads |-> 0, saves |-> 0, opened |-> 0, closed |-> 0]

\* the gate with the comparison of the two lengths dropped
ListingGate_AnyComplete(base, cache, cache_key, t1, a, uniq_rows, complete) ==
    LET w == a.use_cache /\ complete # <<>>
    IN  [base EXCEPT
           !.ret = uniq_rows, !.gate = TRUE, !.cand = uniq_rows,
           !.wrote = w, !.extraction = "ok",
           !.file = IF w THEN _save_cache(Put(cache, cache_key, Entry(t1, complete)))
                    ELSE base.file,
           !.saves = IF w THEN 1 ELSE 0,
           !.opened = 1, !.closed = 1]

\* the completeness gate of the listing pass on uniq_rows, its write at t1
ListingGate(base, cache, cache_key, t1, a, uniq_rows, complete) ==
    LET w == a.use_cache /\ complete # <<>> /\ Len(complete) = Len(uniq_rows)
    IN  [base EXCEPT
           !.ret = uniq_rows, !.gate = TRUE, !.cand = uniq_rows,
           !.wrote = w, !.extraction = "ok",
           !.file = IF w THEN _save_cache(Put(cache, cache_key, Entry(t1, complete)))
                    ELSE base.file,
           !.saves = IF w THEN 1 ELSE 0,
           !.opened = 1, !.closed = 1]

ListingRows(base, cache, cache_key, t1, a, uniq_rows) ==
    ListingGate(base, cache, cache_key, t1, a, uniq_rows, CompleteOf(uniq_rows))

\* scrape_list_page_predictions: started at t0, its cache write at t1.
\* rendered: div.swiper-slide.item appeared within the wait
scrape_list_page_predictions(f, t0, t1, a, slides, rendered) ==
    LET cache == _load_cache(f)
        cache_key == PredlistKey(_today_kst_str(t0))
        base == [Outcome(f) EXCEPT !.loads = 1]
    IN  IF a.use_cache /\ ~a.force_refresh /\ FreshHit(cache, cache_key, t0)
        THEN [base EXCEPT !.ret = cache[cache_key].data, !.hit = TRUE]
        ELSE IF ~rendered
        THEN [base EXCEPT !.exc = "TimeoutException", !.extraction = "failed",
                          !.opened = 1, !.closed = 1]
        ELSE ListingRows(base, cache, cache_key, t1, a, ListingOf[slides])

Range(s) == {s[i] : i \in DOMAIN s}

\* fetch_predictions at time t. loaded: driver.get of the detail pages returned
fetch_predictions(f, t, a, s_no_list, det, loaded) ==
    IF s_no_list = <<>> THEN Outcome(f)
    ELSE
    LET cache == _load_cache(f)
        day_key == _today_kst_str(t)
        cached(s) == a.use_cache /\ ~a.force_refresh /\ FreshHit(cache, PredKey(day_key, s), t)
        misses == {s \in Range(s_no_list) : ~cached(s)}
        data(s) == IF cached(s) THEN cache[PredKey(day_key, s)].data
                   ELSE Parsed[det[s]][s]
        newKeys == IF a.use_cache THEN {PredKey(day_key, s) : s \in misses} ELSE {}
        cache2 == [k \in DOMAIN cache \cup newKeys |->
                     IF k \in newKeys
                     THEN Entry(t, Parsed[det[k.s]][k.s])
                     ELSE cache[k]]
        base == [Outcome(f) EXCEPT !.loads = 1]
    IN  IF misses = {}
        THEN [base EXCEPT !.ret = [i \in DOMAIN s_no_list |-> data(s_no_list[i])]]
        ELSE IF ~loaded
        THEN [base EXCEPT !.exc = "WebDriverException", !.file = _save_cache(cache),
                          !.saves = 1, !.opened = 1, !.closed = 1]
        ELSE [base EXCEPT !.ret = [i \in DOMAIN s_no_list |-> data(s_no_list[i])],
                          !.file = _save_cache(cache2),
                          !.saves = 1, !.opened = 1, !.closed = 1]

\* a row of the listing that sends its s_no to the detail pass
NeedsDetail(r) == \E k \in Fields : ~r[k].has

RECURSIVE NeedSNos(_)
NeedSNos(rows) ==
    IF rows = <<>> THEN <<>>
    ELSE (IF NeedsDetail(Head(rows)) THEN <<Head(rows).s_no>> ELSE <<>>)
         \o NeedSNos(Tail(rows))

\* {d["s_no"]: d for d in fetch_predictions(...)}
DetailedOf(ds) == [s \in {ds[i].s_no : i \in DOMAIN ds} |->
                     LET i == CHOOSE j \in DOMAIN ds :
                                 ds[j].s_no = s /\ \A m \in DOMAIN ds : ds[m].s_no = s => m <= j
                     IN  ds[i]]

\* the merge with the detail value taken whenever the detail has one
MergeField_DetailWins(base, dn, k) == IF dn[k].has THEN dn[k] ELSE base[k]

\* out = dict(base); if out.get(k) is None and dn.get(k) is not None: out[k] = dn[k]
MergeField(base, dn, k) == IF ~base[k].has /\ dn[k].has THEN dn[k] ELSE base[k]

MergeRow(base, detailed) ==
    IF base.s_no \in DOMAIN detailed
    THEN [k \in DOMAIN base |->
            IF k \in Fields THEN MergeField(base, detailed[base.s_no], k) ELSE base[k]]
    ELSE base

MergeAll(rows, detailed) == [i \in DOMAIN rows |-> MergeRow(rows[i], detailed)]

\* the completeness gate of the hybrid cycle on merged, its write at t1
HybridGate(t1, a, L, D, detailed, merged, complete) ==
    LET w == a.use_cache /\ complete # <<>> /\ Len(complete) = Len(merged)
        f2 == IF w
              THEN _save_cache(Put(_load_cache(D.file), PredlistKey(_today_kst_str(t1)),
                                   Entry(t1, complete)))
              ELSE D.file
    IN  [Outcome(f2) EXCEPT
           !.ret = merged, !.hit = L.hit, !.gate = TRUE, !.wrote = w,
           !.extraction = L.extraction,
           !.cand = merged, !.rows = L.ret, !.detailed = detailed,
           !.loads = L.loads + D.loads + (IF w THEN 1 ELSE 0),
           !.saves = L.saves + D.saves + (IF w THEN 1 ELSE 0),
           !.opened = L.opened + D.opened, !.closed = L.closed + D.closed]

HybridMerged(t1, a, L, D, detailed, merged) ==
    HybridGate(t1, a, L, D, detailed, merged, CompleteOf(merged))

HybridMerge(t1, a, L, D, detailed) ==
    HybridMerged(t1, a, L, D, detailed, MergeAll(L.ret, detailed))

\* after the detail pass D of the listing L
HybridDetail(t1, a, L, D) ==
    IF D.exc # "none"
    THEN [D EXCEPT !.rows = L.ret, !.hit = L.hit, !.extraction = L.extraction,
                   !.loads = L.loads + D.loads, !.saves = L.saves + D.saves,
                   !.opened = L.opened + D.opened, !.closed = L.closed + D.closed]
    ELSE HybridMerge(t1, a, L, D, DetailedOf(D.ret))

\* after the listing pass L
HybridListing(t1, a, det, loaded, L) ==
    IF L.exc # "none" \/ ~a.fill_detail THEN [L EXCEPT !.rows = L.ret]
    ELSE HybridDetail(t1, a, L,
                      fetch_predictions(L.file, t1, a, NeedSNos(L.ret), det, loaded))

\* fetch_all_predictions_fast: the listing pass starts at t0; the detail pass and
\* the final write happen at t1
fetch_all_predictions_fast(f, t0, t1, a, slides, rendered, det, loaded) ==
    HybridListing(t1, a, det, loaded,
                  scrape_list_page_predictions(f, t0, t1, a, slides, rendered))

----------------------------------------------------------------------------
(* Identifier discovery: generate_s_no_list.                                 *)

\* the strategies in the order the code runs them: (A) CSS selector on the slides,
\* (B) regular expression over page_source, (C) JavaScript over a[onclick],
\* (D) requests.get of the page
Strategies == <<"css", "html", "js", "requests">>

\* uniq: the identifiers in order of first occurrence
RECURSIVE UniqSNos(_, _)
UniqSNos(s_nos, seen) ==
    IF s_nos = <<>> THEN <<>>
    ELSE IF Head(s_nos) \in seen THEN UniqSNos(Tail(s_nos), seen)
    ELSE <<Head(s_nos)>> \o UniqSNos(Tail(s_nos), seen \cup {Head(s_nos)})

\* every strategy run, the identifiers of all of them collected
RECURSIVE Ladder_KeepsGoing(_, _)
Ladder_KeepsGoing(found, i) ==
    IF i > Len(Strategies) THEN [s_nos |-> <<>>, tried |-> <<>>]
    ELSE LET rest == Ladder_KeepsGoing(found, i + 1)
         IN  [s_nos |-> found[Strategies[i]] \o rest.s_nos,
              tried |-> <<Strategies[i]>> \o rest.tried]

\* the strategies run while s_nos is empty: the first i strategies, where i is the
\* first one that yields identifiers (all of them when none does)
RECURSIVE Ladder(_, _)
Ladder(found, i) ==
    IF i > Len(Strategies) THEN [s_nos |-> <<>>, tried |-> <<>>]
    ELSE IF found[Strategies[i]] # <<>>
    THEN [s_nos |-> found[Strategies[i]], tried |-> <<Strategies[i]>>]
    ELSE LET rest == Ladder(found, i + 1)
         IN  [s_nos |-> rest.s_nos, tried |-> <<Strategies[i]>> \o rest.tried]

\* the end of generate_s_no_list on the identifiers uniq
IndexResult(base, cache, cache_key, t, a, tried, uniq) ==
    IF uniq = <<>>
    THEN [base EXCEPT !.exc = "TimeoutException", !.extraction = "failed",
                      !.tried = tried, !.opened = 1, !.closed = 1]
    ELSE [base EXCEPT !.ret = uniq, !.extraction = "ok", !.tried = tried,
                      !.file = IF a.use_cache
                               THEN _save_cache(Put(cache, cache_key, Entry(t, uniq)))
                               ELSE base.file,
                      !.saves = IF a.use_cache THEN 1 ELSE 0,
                      !.opened = 1, !.closed = 1]

IndexLadder(base, cache, cache_key, t, a, l) ==
    IndexResult(base, cache, cache_key, t, a, l.tried, UniqSNos(l.s_nos, {}))

\* generate_s_no_list at time t; loaded is whether driver.get and the scrolling
\* scripts succeed (their exception is not caught), found[x] is what strategy x
\* yields when it runs (nothing when it fails: its exception is swallowed)
generate_s_no_list(f, t, a, loaded, found) ==
    LET cache == _load_cache(f)
        cache_key == SNosKey(_today_kst_str(t))
        base == [Outcome(f) EXCEPT !.loads = 1]
    IN  IF a.use_cache /\ ~a.force_refresh /\ FreshHit(cache, cache_key, t)
        THEN [base EXCEPT !.ret = cache[cache_key].data, !.hit = TRUE]
        ELSE IF ~loaded
        THEN [base EXCEPT !.exc = "WebDriverException", !.extraction = "failed",
                          !.opened = 1, !.closed = 1]
        ELSE IndexLadder(base, cache, cache_key, t, a, Ladder(found, 1))

\* what one strategy can yield
StrategyResults == {<<>>, <<1>>, <<2, 1, 2>>}
Found == [{Strategies[i] : i \in DOMAIN Strategies} -> StrategyResults]

----------------------------------------------------------------------------
(* statiz_reader.py: date resolution over a loaded cache document.           *)
(* A document is [top, m]: top is "dict" for a JSON object held in m, and    *)
(* "list" for any other JSON value.  A value of the object is [kind, t, v]:  *)
(* kind "dict", "str" (a non-object, truthy) or "null"; t is the type of its *)
(* data field ("list", "dict", or "none" when there is none) and v its items.*)

MaxKeys == 3

Obj(t, v) == [kind |-> "dict", t |-> t, v |-> v]
NonObj == [kind |-> "str", t |-> "none", v |-> <<>>]
Null == [kind |-> "null", t |-> "none", v |-> <<>>]

\* the date tokens of stored keys: dates, and tokens strptime rejects
GoodTokens == {"2024-03-01", "2024-03-02"}
BadTokens == {"latest", "03/02"}
DateTokens == GoodTokens \cup BadTokens
RIds == {"1", "2"}

\* datetime.strptime(s, "%Y-%m-%d") as a day number; 0 when it raises
strptime(s) ==
    CASE s = "2024-03-01" -> 1
      [] s = "2024-03-02" -> 2
      [] s = "2024-03-03" -> 3
      [] OTHER -> 0

\* to_dt: datetime.min for a token that does not parse
to_dt(s) == strptime(s)

\* int(k.split(":")[2]), 0 when it raises
IdInt(s) == CASE s = "1" -> 1 [] s = "2" -> 2 [] OTHER -> 0

RKey(ns, d, s) == [ns |-> ns, d |-> d, s |-> s]

\* cache_json.get(k): None for a missing key and for a null value
RGet(c, k) == IF k \in DOMAIN c.m THEN c.m[k] ELSE Null

_parse_pred_key_date(k) ==
    IF k.ns \in {"pred", "predlist", "s_nos"} THEN SomeStr(k.d) ELSE NoStr

\* the set dates of _available_dates
DateSet(c) ==
    {_parse_pred_key_date(k).v : k \in {x \in DOMAIN c.m : TruthyStr(_parse_pred_key_date(x))}}

\* dates[-1] of sorted(list(dates), key=to_dt): the sort is stable over the
\* iteration order of a set, so among equal keys any one can come last
_pick_latest_date(c) ==
    LET dates == DateSet(c)
    IN  IF dates = {} THEN {NoStr}
        ELSE {SomeStr(d) : d \in {x \in dates : \A y \in dates : to_dt(y) <= to_dt(x)}}

ROk(rows) == [exc |-> "none", rows |-> rows]
RRaise(e) == [exc |-> e, rows |-> <<>>]

_rows_from_predlist(c, date_str) ==
    LET item == RGet(c, RKey("predlist", date_str, ""))
    IN  IF item.kind = "null" THEN ROk(<<>>)
        ELSE IF item.kind # "dict" THEN RRaise("AttributeError")
        ELSE IF item.t = "list" THEN ROk(item.v)
        ELSE ROk(<<>>)

\* o["data"] of pred:<date>:<s_no> when o is a dict whose data is a dict
RECURSIVE IndexRows(_, _, _)
IndexRows(c, date_str, s_nos) ==
    IF s_nos = <<>> THEN <<>>
    ELSE LET o == RGet(c, RKey("pred", date_str, Head(s_nos)))
         IN  (IF o.kind = "dict" /\ o.t = "dict" THEN o.v ELSE <<>>)
             \o IndexRows(c, date_str, Tail(s_nos))

\* collected, sorted by the integer of the identifier
RECURSIVE ScanRows(_, _)
ScanRows(c, ks) ==
    IF ks = {} THEN <<>>
    ELSE LET k == CHOOSE x \in ks : \A y \in ks : IdInt(x.s) <= IdInt(y.s)
         IN  c.m[k].v \o ScanRows(c, ks \ {k})

\* the prefix scan alone, the index not consulted
_rows_from_pred_snos_ScanOnly(c, date_str) ==
    ScanRows(c, {k \in DOMAIN c.m : /\ k.ns = "pred" /\ k.d = date_str
                                    /\ c.m[k].kind = "dict"
                                    /\ c.m[k].t = "dict"})

_rows_from_pred_snos(c, date_str) ==
    LET snos_obj == RGet(c, RKey("s_nos", date_str, ""))
        results == IF snos_obj.kind = "dict" /\ snos_obj.t = "list"
                   THEN IndexRows(c, date_str, snos_obj.v) ELSE <<>>
    IN  IF results # <<>> THEN results
        ELSE ScanRows(c, {k \in DOMAIN c.m : /\ k.ns = "pred" /\ k.d = date_str
                                             /\ c.m[k].kind = "dict"
                                             /\ c.m[k].t = "dict"})

\* priority the other way round: predlist:* first, then pred:*
get_pred_rows_for_date_ListFirst(c, date_str) ==
    IF c.top # "dict" THEN RRaise("AttributeError")
    ELSE LET r == _rows_from_predlist(c, date_str)
         IN  IF r.exc # "none" \/ r.rows # <<>> THEN r
             ELSE ROk(_rows_from_pred_snos(c, date_str))

get_pred_rows_for_date(c, date_str) ==
    IF c.top # "dict" THEN RRaise("AttributeError")
    ELSE LET rows == _rows_from_pred_snos(c, date_str)
         IN  IF rows # <<>> THEN ROk(rows) ELSE _rows_from_predlist(c, date_str)

\* the results get_today_predlist can give, each with the date the fallback chose
get_today_predlist(c, today) ==
    LET r == get_pred_rows_for_date(c, today)
    IN  IF r.exc # "none" \/ r.rows # <<>>
        THEN {[exc |-> r.exc, rows |-> r.rows, fell |-> FALSE, latest |-> NoStr]}
        ELSE {LET q == IF latest.has THEN get_pred_rows_for_date(c, latest.v)
                       ELSE ROk(<<>>)
              IN  [exc |-> q.exc, rows |-> q.rows, fell |-> TRUE, latest |-> latest]
              : latest \in _pick_latest_date(c)}

\* the keys a document can hold and the values under each
RKeys ==
    {RKey(ns, d, "") : ns \in {"predlist", "s_nos"}, d \in DateTokens}
    \cup {RKey("pred", d, s) : d \in DateTokens, s \in RIds}

\* a record is tagged with the key it is stored under
RValues(k) ==
    CASE k.ns = "predlist" ->
             {Obj("list", <<<<k.d, "a">>, <<k.d, "b">>>>), Obj("list", <<>>), NonObj}
      [] k.ns = "s_nos" -> {Obj("list", <<"2", "1">>), Obj("none", <<>>)}
      [] OTHER -> {Obj("dict", <<<<k.d, k.s>>>>), NonObj}

\* today's date string of the reader's _today_kst_str
Todays == {"2024-03-02", "2024-03-03"}

EmptyStore == [top |-> "dict", m |-> <<>>]
RIdle == [phase |-> "idle", exc |-> "none", rows |-> <<>>, fell |-> FALSE, latest |-> NoStr]

ReaderInit ==
    /\ store \in {EmptyStore, [top |-> "list", m |-> <<>>]}
    /\ rtoday \in Todays
    /\ robs = RIdle

ReaderFixed ==
    /\ store = EmptyStore
    /\ rtoday = "2024-03-02"
    /\ robs = RIdle

\* the cache document gains an entry (from the crawler, the remote snapshot or
\* the bundled file)
StorePut ==
    /\ store.top = "dict"
    /\ Cardinality(DOMAIN store.m) < MaxKeys
    /\ \E k \in RKeys \ DOMAIN store.m : \E v \in RValues(k) :
           store' = [store EXCEPT !.m = Put(store.m, k, v)]
    /\ robs' = RIdle
    /\ UNCHANGED rtoday
    /\ UNCHANGED NotReader

GetTodayPredlist ==
    /\ robs.phase = "idle"
    /\ \E o \in get_today_predlist(store, rtoday) :
           robs' = [phase |-> "done", exc |-> o.exc, rows |-> o.rows,
                    fell |-> o.fell, latest |-> o.latest]
    /\ UNCHANGED <<store, rtoday>>
    /\ UNCHANGED NotReader

ReaderNext == StorePut \/ GetTodayPredlist

----------------------------------------------------------------------------
(* The crawler as a state machine: one action per call.                      *)

ObsOf(op, a, t, o) ==
    [op |-> op, args |-> a, at |-> t, exc |-> o.exc, ret |-> o.ret, hit |-> o.hit,
     gate |-> o.gate, wrote |-> o.wrote, cand |-> o.cand, rows |-> o.rows,
     detailed |-> o.detailed, extraction |-> o.extraction, tried |-> o.tried, loads |-> o.loads, saves |-> o.saves,
     opened |-> o.opened, closed |-> o.closed]

NoArgs == [use_cache |-> FALSE, force_refresh |-> FALSE, fill_detail |-> FALSE]
ObsIdle == ObsOf("none", NoArgs, StartMin, Outcome(Missing))

CrawlInit ==
    /\ now = StartMin
    /\ file = Missing
    /\ page \in Pages
    /\ detail \in DetailMaps
    /\ obs = ObsIdle
    /\ lags = {0}

CrawlFixed ==
    /\ now = StartMin
    /\ file = Missing
    /\ page = <<>>
    /\ detail = [s \in SNos |-> DetailPage(ElPartial, FALSE, "")]
    /\ obs = ObsIdle
    /\ lags = {0}

\* the time a call can take between its start and its last write
Elapsed == {0, Quantum}

Tick ==
    /\ now + Quantum <= MaxNow
    /\ now' = now + Quantum
    /\ UNCHANGED <<file, page, detail, obs, lags>>
    /\ UNCHANGED NotCrawl

\* clear_cache()
clear_cache ==
    /\ file.kind # "missing"
    /\ file' = Missing
    /\ obs' = ObsOf("clear_cache", NoArgs, now, Outcome(Missing))
    /\ UNCHANGED <<now, page, detail, lags>>
    /\ UNCHANGED NotCrawl

ListingPass ==
    \E a \in Args, dt \in lags, rendered \in BOOLEAN :
        /\ ~a.fill_detail
        /\ now + dt <= MaxNow
        /\ rendered => page # <<>>
        /\ \E o \in {scrape_list_page_predictions(file, now, now + dt, a, page, rendered)} :
               /\ file' = o.file
               /\ obs' = ObsOf("scrape_list_page_predictions", a, now + dt, o)
        /\ now' = now + dt
        /\ UNCHANGED <<page, detail, lags>>
        /\ UNCHANGED NotCrawl

HybridCycle ==
    \E a \in Args, dt \in lags, rendered \in BOOLEAN, loaded \in BOOLEAN :
        /\ now + dt <= MaxNow
        /\ rendered => page # <<>>
        /\ \E o \in {fetch_all_predictions_fast(file, now, now + dt, a, page, rendered,
                                               detail, loaded)} :
               /\ file' = o.file
               /\ obs' = ObsOf("fetch_all_predictions_fast", a, now + dt, o)
        /\ now' = now + dt
        /\ UNCHANGED <<page, detail, lags>>
        /\ UNCHANGED NotCrawl

IndexPass ==
    \E a \in Args, loaded \in BOOLEAN, found \in Found :
        /\ ~a.fill_detail
        /\ \E o \in {generate_s_no_list(file, now, a, loaded, found)} :
               /\ file' = o.file
               /\ obs' = ObsOf("generate_s_no_list", a, now, o)
        /\ UNCHANGED <<now, page, detail, lags>>
        /\ UNCHANGED NotCrawl

----------------------------------------------------------------------------
(* statiz_reader.py: the local cache file and its refresh from the remote.   *)
(* A JSON value is "{}" (the empty object), "A" or "B" (non-empty objects)   *)
(* or "[1]" (a non-object).  A file is [kind, data, mtime] with kind         *)
(* "missing", "json" or "corrupt".                                           *)

CACHE_TTL_MIN == 30

JsonValues == {"{}", "A", "B", "[1]"}

NoFile == [kind |-> "missing", data |-> "{}", mtime |-> 0]

\* (time.time() - mtime) < ttl_minutes * 60; False when getmtime raises
_is_fresh_file(f, ttl_minutes, t) == f.kind # "missing" /\ (t - f.mtime) < ttl_minutes

_load_local_json(f) == IF f.kind = "json" THEN f.data ELSE "{}"

\* the file at path after the temporary file is renamed over it
_save_local_json(data, t) == [kind |-> "json", data |-> data, mtime |-> t]

\* what requests.get(REMOTE_CACHE_URL).json() gives: a JSON value, "error" when
\* any step raises, "unset" when no URL is configured
Responses == JsonValues \cup {"error", "unset"}

\* the freshness test taken whatever force says
fetch_remote_into_cache_ForceIgnored(l, b, force, resp, t) ==
    IF _is_fresh_file(l, CACHE_TTL_MIN, t) /\ _load_local_json(l) # "{}"
    THEN [ret |-> _load_local_json(l), from |-> "local", lfile |-> l]
    ELSE IF resp \in {"A", "B"}
    THEN [ret |-> resp, from |-> "remote", lfile |-> _save_local_json(resp, t)]
    ELSE IF _load_local_json(b) # "{}"
    THEN [ret |-> _load_local_json(b), from |-> "bundled",
          lfile |-> _save_local_json(_load_local_json(b), t)]
    ELSE [ret |-> "{}", from |-> "none", lfile |-> l]

\* fetch_remote_into_cache(force) at time t: the value returned, the source it
\* came from, and the local cache file after the call
fetch_remote_into_cache(l, b, force, resp, t) ==
    IF ~force /\ _is_fresh_file(l, CACHE_TTL_MIN, t) /\ _load_local_json(l) # "{}"
    THEN [ret |-> _load_local_json(l), from |-> "local", lfile |-> l]
    ELSE IF resp \in {"A", "B"}
    THEN [ret |-> resp, from |-> "remote", lfile |-> _save_local_json(resp, t)]
    ELSE IF _load_local_json(b) # "{}"
    THEN [ret |-> _load_local_json(b), from |-> "bundled",
          lfile |-> _save_local_json(_load_local_json(b), t)]
    ELSE [ret |-> "{}", from |-> "none", lfile |-> l]

RemoteIdle == [op |-> "none", force |-> FALSE, resp |-> "unset", ret |-> "{}",
               from |-> "none", pre |-> NoFile, at |-> StartMin]

RemoteInit ==
    /\ lfile \in {NoFile, [kind |-> "corrupt", data |-> "{}", mtime |-> StartMin],
                  _save_local_json("A", StartMin), _save_local_json("[1]", StartMin)}
    /\ bfile \in {NoFile, _save_local_json("B", 0), _save_local_json("{}", 0)}
    /\ mobs = RemoteIdle

RemoteFixed ==
    /\ lfile = NoFile
    /\ bfile = NoFile
    /\ mobs = RemoteIdle

FetchRemote ==
    \E force \in BOOLEAN, resp \in Responses :
        /\ \E o \in {fetch_remote_into_cache(lfile, bfile, force, resp, now)} :
               /\ lfile' = o.lfile
               /\ mobs' = [op |-> "fetch_remote_into_cache", force |-> force,
                           resp |-> resp, ret |-> o.ret, from |-> o.from,
                           pre |-> lfile, at |-> now]
        /\ UNCHANGED bfile
        /\ UNCHANGED <<cvars, pvars, rvars, avars, nvars>>

RemoteNext == Tick \/ FetchRemote

----------------------------------------------------------------------------
(* predict_back.py: the fan-vote lookup in the snapshot document or the     *)
(* live page.  A document is its sequence of match boxes, a box the texts   *)
(* of its name elements and of its rate elements.                            *)

MaxBoxes == 2

\* float(p.replace('%','').strip()); has = FALSE stands for ValueError
PercentFloat(p) ==
    LET q == SelectSeq(p, LAMBDA c : c # "%")
        inner == {i \in 1 .. Len(q) : ~IsSpace(q[i])}
        s == IF inner = {} THEN <<>>
             ELSE SubSeq(q, CHOOSE i \in inner : \A j \in inner : i <= j,
                            CHOOSE i \in inner : \A j \in inner : j <= i)
        e1 == DigitRunEnd(s, 1)
        e2 == DigitRunEnd(s, e1 + 1)
    IN  IF e1 > Len(s)
        THEN IF e1 > 1 THEN SomePct(ToFloat(s, 1, e1, e1, e1)) ELSE NoPct
        ELSE IF s[e1] = "." /\ e2 = Len(s) + 1 /\ (e1 > 1 \/ e2 > e1 + 1)
             THEN SomePct(ToFloat(s, 1, e1, e1 + 1, e2))
             ELSE NoPct

NoVote == [has |-> FALSE, v |-> <<>>]

\* the first box with two names and two rates that names the team decides
_extract_naver_block(soup, team_name) ==
    LET hits == {i \in 1 .. Len(soup) :
                    /\ Len(soup[i].teams) = 2 /\ Len(soup[i].percents) = 2
                    /\ team_name \in {soup[i].teams[1], soup[i].teams[2]}}
    IN  IF hits = {} THEN [exc |-> "none", ret |-> NoVote]
        ELSE LET box == soup[CHOOSE i \in hits : \A j \in hits : i <= j]
                 p1 == PercentFloat(box.percents[1])
                 p2 == PercentFloat(box.percents[2])
             IN  IF ~p1.has \/ ~p2.has
                 THEN [exc |-> "ValueError", ret |-> NoVote]
                 ELSE [exc |-> "none",
                       ret |-> [has |-> TRUE,
                                v |-> <<box.teams[1], box.teams[2], p1.v, p2.v>>]]

parse_naver_vote_from_file(team_name, f) ==
    IF ~f.exists THEN [exc |-> "none", ret |-> NoVote]
    ELSE _extract_naver_block(f.boxes, team_name)

\* resp: the answer of requests.get, [kind, boxes]
parse_naver_vote_live(team_name, resp) ==
    IF resp.kind # "200" THEN [exc |-> "none", ret |-> NoVote]
    ELSE LET r == _extract_naver_block(resp.boxes, team_name)
         IN  IF r.exc # "none" THEN [exc |-> "none", ret |-> NoVote] ELSE r

\* the documents a source can hold
NaverDocs ==
    LET box == [teams : {<<"LG", "KT">>, <<"NC", "LG">>, <<"LG">>},
                percents : {<<<<"5", "0", "%">>, <<"1", "5", ".", "5">>>>,
                            <<<<"%">>, <<"5", "0", "%">>>>,
                            <<<<"5", "0", "%">>>>}]
    IN  UNION {[1 .. n -> box] : n \in 0 .. MaxBoxes}

NaverFixed ==
    /\ fanvote = [exists |-> FALSE, mtime |-> 0, boxes |-> <<>>]
    /\ nobs = [op |-> "none", team |-> "", mtime |-> 0, exc |-> "none", ret |-> NoVote]

\* the snapshot document is replaced, removed or rewritten in place; the
\* modification time of the new document may equal the old one
WriteSnapshot ==
    /\ \E e \in BOOLEAN, t \in 0 .. 1, d \in NaverDocs :
          fanvote' = [exists |-> e, mtime |-> t, boxes |-> IF e THEN d ELSE <<>>]
    /\ UNCHANGED nobs
    /\ UNCHANGED <<cvars, pvars, rvars, mvars, avars>>

\* build_payload_for_team: the lookup of the team's fan vote
NaverVote ==
    /\ \E team \in {"LG", "KT", "NC"} :
          \/ \E r \in {parse_naver_vote_from_file(team, fanvote)} :
                nobs' = [op |-> "file", team |-> team, mtime |-> fanvote.mtime,
                         exc |-> r.exc, ret |-> r.ret]
          \/ \E resp \in [kind : {"200"}, boxes : NaverDocs]
                           \cup [kind : {"500", "error"}, boxes : {<<>>}] :
                \E r \in {parse_naver_vote_live(team, resp)} :
                   nobs' = [op |-> "live", team |-> team, mtime |-> fanvote.mtime,
                            exc |-> r.exc, ret |-> r.ret]
    /\ UNCHANGED fanvote
    /\ UNCHANGED <<cvars, pvars, rvars, mvars, avars>>

NaverNext == WriteSnapshot \/ NaverVote

----------------------------------------------------------------------------
(* _save_cache / _save_local_json on a POSIX file system.  A file is an      *)
(* inode holding cells; the names <path> and <path>.tmp point at inodes.     *)
(* Writer w serializes its document in DocLen chunks, cell <<w, i>> being    *)
(* its i-th chunk.                                                           *)

NumWriters == 2
DocLen == 2

NoInode == 0 - 1

\* the complete document of writer w; writer 0 wrote the initial live file
Doc(w) == [i \in 1 .. DocLen |-> <<w, i>>]

\* write(2) of one cell at offset off of a file
WriteAt(content, off, cell) ==
    [i \in 1 .. (IF off < Len(content) THEN Len(content) ELSE off + 1) |->
        IF i = off + 1 THEN cell ELSE IF i <= Len(content) THEN content[i] ELSE <<0, 0>>]

AtomicInit ==
    /\ inodes = [n \in 0 .. NumWriters |-> IF n = 0 THEN Doc(0) ELSE <<>>]
    /\ paths = [tmp |-> NoInode, live |-> 0, next |-> 1]
    /\ wr = [w \in 1 .. NumWriters |->
                [pc |-> "start", fd |-> NoInode, off |-> 0, op |-> "none", quit |-> FALSE]]
    /\ snapshot = [phase |-> "idle", content |-> <<>>]

\* whether driver.quit() runs in the call op that made the save, the save
\* having returned (saved) or raised: scrape_list_page_predictions saves inside
\* try ... finally: driver.quit(); fetch_predictions has
\* finally: _save_cache(cache); driver.quit()
QuitAfterSave(op, saved) == op # "fetch_predictions" \/ saved

\* open(tmp, "w") in the save of a call that holds a browser session: creates
\* the file, or truncates the one that has this name
OpenTmp(w) ==
    /\ wr[w].pc = "start"
    /\ LET n == IF paths.tmp = NoInode THEN paths.next ELSE paths.tmp
       IN  /\ inodes' = [inodes EXCEPT ![n] = <<>>]
           /\ paths' = IF paths.tmp = NoInode
                       THEN [paths EXCEPT !.tmp = n, !.next = n + 1]
                       ELSE paths
           /\ \E op \in {"scrape_list_page_predictions", "fetch_predictions"} :
                 wr' = [wr EXCEPT ![w] = [pc |-> "write", fd |-> n, off |-> 0,
                                          op |-> op, quit |-> FALSE]]
    /\ UNCHANGED snapshot
    /\ UNCHANGED <<cvars, pvars, rvars, mvars, nvars>>

\* json.dump: one flush of the file object's buffer
WriteChunk(w) ==
    /\ wr[w].pc = "write"
    /\ wr[w].off < DocLen
    /\ inodes' = [inodes EXCEPT ![wr[w].fd] = WriteAt(@, wr[w].off, <<w, wr[w].off + 1>>)]
    /\ wr' = [wr EXCEPT ![w].off = @ + 1]
    /\ UNCHANGED <<paths, snapshot>>
    /\ UNCHANGED <<cvars, pvars, rvars, mvars, nvars>>

\* os.replace(tmp, path) after the file is closed; FileNotFoundError when the
\* name <path>.tmp is gone
Replace(w) ==
    /\ wr[w].pc = "write"
    /\ wr[w].off = DocLen
    /\ IF paths.tmp = NoInode
       THEN /\ wr' = [wr EXCEPT ![w].pc = "failed",
                                ![w].quit = QuitAfterSave(wr[w].op, FALSE)]
            /\ UNCHANGED paths
       ELSE /\ wr' = [wr EXCEPT ![w].pc = "done",
                                ![w].quit = QuitAfterSave(wr[w].op, TRUE)]
            /\ paths' = [paths EXCEPT !.live = paths.tmp, !.tmp = NoInode]
    /\ UNCHANGED <<inodes, snapshot>>
    /\ UNCHANGED <<cvars, pvars, rvars, mvars, nvars>>

\* _load_cache / _load_local_json: the reader opens the live file and reads it
ReadLive ==
    /\ snapshot' = [phase |-> "read", content |-> inodes[paths.live]]
    /\ UNCHANGED <<inodes, paths, wr>>
    /\ UNCHANGED <<cvars, pvars, rvars, mvars, nvars>>

AtomicNext ==
    \/ \E w \in 1 .. NumWriters : OpenTmp(w) \/ WriteChunk(w) \/ Replace(w)
    \/ ReadLive

Init == CrawlInit /\ PctFixed /\ ReaderFixed /\ RemoteFixed /\ AtomicInit /\ NaverFixed
Next == Tick \/ clear_cache \/ ListingPass \/ HybridCycle
Spec == Init /\ [][Next]_vars

\* the crawler on a page of one slide or of one slide shown twice, its calls
\* taking time
ClockSpecInit ==
    /\ now = StartMin
    /\ file = Missing
    /\ page \in {<<Slide(1, ElFull)>>, <<Slide(2, ElZeroText)>>, LoopPage}
    /\ detail \in DetailMaps
    /\ obs = ObsIdle
    /\ lags = Elapsed
    /\ PctFixed /\ ReaderFixed /\ RemoteFixed /\ AtomicInit /\ NaverFixed
SpecClock == ClockSpecInit /\ [][Next]_vars

\* the crawler's identifier discovery alone
IndexNext == Tick \/ clear_cache \/ IndexPass
IndexInit == CrawlFixed /\ PctFixed /\ ReaderFixed /\ RemoteFixed /\ AtomicInit /\ NaverFixed
SpecIndex == IndexInit /\ [][IndexNext]_vars

PercentInit == CrawlFixed /\ PctInit /\ ReaderFixed /\ RemoteFixed /\ AtomicInit /\ NaverFixed
SpecPercent == PercentInit /\ [][PctNext]_vars

ReaderSpecInit == CrawlFixed /\ PctFixed /\ ReaderInit /\ RemoteFixed /\ AtomicInit /\ NaverFixed
SpecReader == ReaderSpecInit /\ [][ReaderNext]_vars

RemoteSpecInit == CrawlFixed /\ PctFixed /\ ReaderFixed /\ RemoteInit /\ AtomicInit /\ NaverFixed
SpecRemote == RemoteSpecInit /\ [][RemoteNext]_vars

\* concurrent saves of the cache file and a reader
AtomicSpecInit == CrawlFixed /\ PctFixed /\ ReaderFixed /\ RemoteFixed /\ AtomicInit /\ NaverFixed
SpecAtomic == AtomicSpecInit /\ [][AtomicNext]_vars

\* the fan-vote lookups alone
NaverSpecInit == CrawlFixed /\ PctFixed /\ ReaderFixed /\ RemoteFixed /\ AtomicInit /\ NaverFixed
SpecNaver == NaverSpecInit /\ [][NaverNext]_vars

\* hybrid cycles and refreshes of the reader, each on a cache file that may
\* be absent or unreadable (here: cut short inside its first entry)
StorageInit ==
    /\ now = StartMin
    /\ file \in {Missing,
                 [kind |-> "corrupt",
                  doc |-> Put(EmptyDoc, PredlistKey(_today_kst_str(StartMin)),
                              Entry(StartMin, <<>>))]}
    /\ page = <<Slide(1, ElFull)>>
    /\ detail = [s \in SNos |-> DetailPage(ElOther, TRUE, "text")]
    /\ obs = ObsIdle
    /\ lags = {0}
    /\ lfile \in {NoFile, [kind |-> "corrupt", data |-> "A", mtime |-> StartMin]}
    /\ bfile \in {[kind |-> "corrupt", data |-> "B", mtime |-> 0],
                  _save_local_json("B", 0)}
    /\ mobs = RemoteIdle
    /\ PctFixed /\ ReaderFixed /\ AtomicInit /\ NaverFixed
StorageNext == HybridCycle \/ FetchRemote
SpecStorage == StorageInit /\ [][StorageNext]_vars

----------------------------------------------------------------------------
(* Properties of the completeness gate and of the merge.                    *)

RequiredFields == {"left_team", "right_team", "left_percent", "right_percent"}

\* every required field of the record is present
HasAllFields(r) == \A k \in RequiredFields : r[k].has
AllPresent(rows) == \A i \in DOMAIN rows : HasAllFields(rows[i])

GateOps == {"scrape_list_page_predictions", "fetch_all_predictions_fast"}

\* the call described by o reached its completeness gate with caching enabled
AtGate(o) == o.op \in GateOps /\ o.gate /\ o.args.use_cache

PredlistPart(f) ==
    [k \in {x \in DOMAIN _load_cache(f) : x.ns = "predlist"} |-> _load_cache(f)[k]]

\* the file holds predlist:<today> as written by the call: the candidate set verbatim
WrittenVerbatim(f, o) ==
    LET k == PredlistKey(_today_kst_str(o.at))
    IN  /\ f.kind = "doc"
        /\ Has(f.doc, k)
        /\ f.doc[k] = [ts |-> _now_kst(o.at), data |-> o.cand]

\* C1 as stated: at the end of a listing pass or a hybrid cycle with caching
\* enabled, predlist:<today> is written if and only if every record of the
\* candidate set has left_team, right_team, left_percent and right_percent.
C1_WrittenIffAllComplete ==
    AtGate(obs) => (obs.wrote <=> AllPresent(obs.cand))

\* C1 as amended: predlist:<today> is written if and only if the candidate set
\* is not empty and every record of it has the four fields; when it is written
\* the stored payload is the candidate set verbatim; when it is not written
\* (a record is incomplete, or the set is empty) the stored predlist entries are
\* left exactly as they were.
C1_GateStep ==
    AtGate(obs') =>
        /\ obs'.wrote <=> (obs'.cand # <<>> /\ AllPresent(obs'.cand))
        /\ obs'.wrote => WrittenVerbatim(file', obs')
        /\ ~obs'.wrote => PredlistPart(file') = PredlistPart(file)

C1_CompletenessGate == [][C1_GateStep]_vars

\* C1 witness: a listing pass found an incomplete record and left a stored
\* predlist entry alone
C1_Witness ==
    /\ AtGate(obs)
    /\ obs.op = "scrape_list_page_predictions"
    /\ ~obs.wrote
    /\ ~AllPresent(obs.cand)
    /\ PredlistPart(file) # <<>>

\* C2: for every record and every field, the merged value of the hybrid cycle is
\* the listing value when that is present (an explicit 0.0 included), else the
\* detail value when that is present, else absent.
MergeRan(o) == o.op = "fetch_all_predictions_fast" /\ o.args.fill_detail /\ o.exc = "none"

C2_NoOverwriteMerge ==
    MergeRan(obs) =>
        /\ Len(obs.ret) = Len(obs.rows)
        /\ \A i \in DOMAIN obs.rows :
              LET listing == obs.rows[i]
                  merged == obs.ret[i]
                  hasDetail == listing.s_no \in DOMAIN obs.detailed
              IN  /\ merged.s_no = listing.s_no
                  /\ \A k \in Fields :
                        IF listing[k].has THEN merged[k] = listing[k]
                        ELSE IF hasDetail /\ obs.detailed[listing.s_no][k].has
                        THEN merged[k] = obs.detailed[listing.s_no][k]
                        ELSE ~merged[k].has

\* C2 witness: a merge in which the listing holds 0.0 where the detail record
\* holds another value, and the detail record fills a field the listing lacks
C2_Witness ==
    /\ MergeRan(obs)
    /\ \E i \in DOMAIN obs.rows :
          LET listing == obs.rows[i]
          IN  /\ listing.s_no \in DOMAIN obs.detailed
              /\ listing.right_percent = SomePct(0)
              /\ obs.detailed[listing.s_no].right_percent.has
              /\ obs.detailed[listing.s_no].right_percent # listing.right_percent
    /\ \E i \in DOMAIN obs.rows :
          LET listing == obs.rows[i]
          IN  /\ listing.s_no \in DOMAIN obs.detailed
              /\ ~listing.left_percent.has
              /\ obs.detailed[listing.s_no].left_percent.has

\* the cached entry of the key the call asked for: it exists and is older than the TTL
StaleEntry(f, k, t) ==
    /\ f.kind = "doc"
    /\ Has(f.doc, k)
    /\ ~_is_fresh(f.doc[k], DEFAULT_TTL_MIN, t)

RequestedKey(o) ==
    IF o.op = "generate_s_no_list" THEN SNosKey(_today_kst_str(o.at))
    ELSE PredlistKey(_today_kst_str(o.at))

\* C8: when the cached entry of the requested key exists but is older than the
\* TTL and the re-extraction fails entirely, the operation returns the stale
\* cached payload rather than an error or an empty result.
C8_StaleAsLastResort ==
    (/\ obs.op \in {"scrape_list_page_predictions", "generate_s_no_list"}
     /\ obs.args.use_cache
     /\ obs.extraction = "failed"
     /\ StaleEntry(file, RequestedKey(obs), obs.at))
    => (obs.exc = "none" /\ obs.ret = file.doc[RequestedKey(obs)].data)

\* C9: when every identifier-discovery strategy of generate_s_no_list produces
\* zero identifiers, the operation returns an empty list and no exception
\* reaches the caller.
C9_TotalFailureIsEmpty ==
    (obs.op = "generate_s_no_list" /\ obs.extraction = "failed"
        /\ obs.tried = Strategies)
    => (obs.exc = "none" /\ obs.ret = <<>>)

\* C10: a percentage whose source text is an explicit 0% is extracted as the
\* present value 0.0, distinct from an absent value.
C10_ZeroIsPresent ==
    (pout.phase = "done" /\ pout.raw = SomePct(0)) => pout.val = SomePct(0)

----------------------------------------------------------------------------
(* Properties of the reader's date resolution.                               *)

\* every key's date token parses and every value is an object
WellFormed(c) ==
    /\ c.top = "dict"
    /\ \A k \in DOMAIN c.m : strptime(k.d) # 0 /\ c.m[k].kind = "dict"

\* every value is an object (date tokens are free)
WellTyped(c) ==
    /\ c.top = "dict"
    /\ \A k \in DOMAIN c.m : c.m[k].kind = "dict"

HasData(c, d) == get_pred_rows_for_date(c, d).rows # <<>>

\* the most recent of the dates ds, None when there is none
MostRecent(ds) ==
    IF ds = {} THEN NoStr
    ELSE SomeStr(CHOOSE d \in ds : \A e \in ds : strptime(e) <= strptime(d))

RowsOfDate(c, od) == IF od.has THEN get_pred_rows_for_date(c, od.v).rows ELSE <<>>

TodayOrLatest(c, today) ==
    IF HasData(c, today) THEN RowsOfDate(c, SomeStr(today))
    ELSE RowsOfDate(c, MostRecent({d \in DateSet(c) : HasData(c, d)}))

\* C3: get_today_predlist returns today's records when today has any, otherwise
\* the records of the most recent date that has any, and the empty list only
\* when no date of the store has data.
C3_TodayOrLatest ==
    (robs.phase = "done" /\ WellFormed(store))
    => (robs.exc = "none" /\ robs.rows = TodayOrLatest(store, rtoday))

\* C4: the date the fallback chooses is the maximum over the date tokens that
\* parse; a key whose token does not parse is never chosen, contributes no
\* records and causes no error.
C4_LatestIgnoresUnparseable ==
    (robs.phase = "done" /\ robs.fell /\ WellTyped(store))
    => LET parseable == {d \in DateSet(store) : strptime(d) # 0}
       IN  /\ robs.exc = "none"
           /\ robs.latest = MostRecent(parseable)
           /\ robs.rows = RowsOfDate(store, MostRecent(parseable))

\* C5: get_today_predlist returns a list for every loaded cache content and
\* never raises.
C5_NeverRaises == robs.phase = "done" => robs.exc = "none"

----------------------------------------------------------------------------
(* Properties of the refresh from the remote.                                *)

\* C7: when fetch_remote_into_cache runs and the remote fetch fails or returns
\* an empty or non-object document, the content of the local cache file is
\* unchanged by the call (stated here for a local file that held a non-empty
\* object before the call).
C7_FailedRefreshKeepsLocal ==
    (/\ mobs.op = "fetch_remote_into_cache"
     /\ mobs.from # "local"
     /\ mobs.resp \in {"error", "{}", "[1]"}
     /\ mobs.pre.kind = "json" /\ mobs.pre.data \in {"A", "B"})
    => (lfile.kind = mobs.pre.kind /\ lfile.data = mobs.pre.data)

----------------------------------------------------------------------------
(* Properties of the cache file under concurrent saves.                      *)

\* C6: under any interleaving of cache writers with a reader, the live cache
\* file the reader loads is always a complete document written by exactly one
\* writer, never a half-written or mixed document.
C6_AtomicWrite ==
    snapshot.phase = "read" => \E w \in 0 .. NumWriters : snapshot.content = Doc(w)

----------------------------------------------------------------------------
(* Properties of the extracted percentages.                                  *)

\* C11: a present left_percent or right_percent of an extracted record is a
\* number in [0, 100]; a text that does not parse is absent, never zero.
C11_PercentRange ==
    (pout.phase = "done" /\ pout.val.has)
    => (0 <= pout.val.v /\ pout.val.v <= 100 * Scale)

----------------------------------------------------------------------------
(* Properties of the hybrid cycle over time.                                 *)

\* a hybrid cycle with the default arguments
DefaultCycle(o) ==
    /\ o.op = "fetch_all_predictions_fast"
    /\ o.args.use_cache /\ ~o.args.force_refresh /\ o.args.fill_detail

\* this step is a call of fetch_all_predictions_fast with the default arguments
DefaultCycleStep == DefaultCycle(obs') /\ (obs' # obs \/ file' # file)

\* C12: after a hybrid cycle returned and persisted the complete records of
\* the listing under predlist:<today>, a later hybrid cycle started while that
\* entry is within its TTL returns the same records without opening a browser
\* session and without any listing or detail extraction.
C12_Step ==
    (/\ DefaultCycleStep
     /\ DefaultCycle(obs) /\ obs.exc = "none" /\ obs.wrote
     /\ ListingOf[page] # <<>> /\ AllPresent(ListingOf[page])
     /\ FreshHit(_load_cache(file), PredlistKey(_today_kst_str(now)), now))
    => (/\ obs'.exc = "none"
        /\ obs'.ret = _load_cache(file)[PredlistKey(_today_kst_str(now))].data
        /\ obs'.opened = 0)

C12_CacheHitWithinTTL == [][C12_Step]_vars

\* C13: running fetch_all_predictions_fast twice in a row with the source
\* unchanged leaves the persisted store after the second run identical to the
\* persisted store after the first run.
C13_Step ==
    (/\ obs'.op = "fetch_all_predictions_fast" /\ (obs' # obs \/ file' # file)
     /\ obs.op = "fetch_all_predictions_fast" /\ obs.args = obs'.args
     /\ obs.exc = "none" /\ obs'.exc = "none")
    => file' = file

C13_Idempotence == [][C13_Step]_vars

\* C14: every record held under predlist:<D> or pred:<D>:<id> was obtained in a
\* cycle whose civil date (UTC+9) was D, also when the clock crosses midnight
\* between the start of the cycle and its final write: every entry a cycle
\* writes is keyed by the date the cycle started on.
C14_Step ==
    (obs'.op \in GateOps /\ file' # file /\ file'.kind = "doc")
    => \A k \in DOMAIN file'.doc :
          (~Has(_load_cache(file), k) \/ file'.doc[k] # _load_cache(file)[k])
          => k.d = _today_kst_str(now)

C14_DateScoping == [][C14_Step]_vars

\* C15: the snapshot document is parsed again only when its modification time
\* differs from the one of the last parse: a lookup of the same team in a
\* document whose modification time is unchanged is served the record the
\* last parse produced, also when the contents were rewritten in between.
C15_Step ==
    (/\ nobs.op = "file" /\ nobs.ret.has
     /\ nobs'.op = "file" /\ nobs'.team = nobs.team
     /\ fanvote' = fanvote /\ fanvote.exists /\ fanvote.mtime = nobs.mtime)
    => nobs'.ret = nobs.ret

C15_MtimeInvalidation == [][C15_Step]_vars

\* a box whose rate texts all parse as numbers
ParseableBox(box) ==
    \A i \in 1 .. Len(box.percents) : PercentFloat(box.percents[i]).has

\* C16: a fan-vote block whose percentage text does not parse is skipped: no
\* lookup raises, and a lookup in the snapshot document yields what the
\* document without its unparseable blocks yields.
C16_Step ==
    (nobs' # nobs)
    => /\ nobs'.exc = "none"
       /\ nobs'.op = "file"
          => nobs'.ret = parse_naver_vote_from_file(nobs'.team,
                            [fanvote EXCEPT !.boxes = SelectSeq(@, ParseableBox)]).ret

C16_DropsUnparseableRows == [][C16_Step]_vars

\* C17: a cache file that is missing or cannot be deserialized is an empty
\* store: a hybrid cycle, or a call of fetch_remote_into_cache, that finds
\* such a file does exactly what the same call does with no file at all, and
\* is never served from the file.
C17_Step ==
    /\ (/\ file.kind \in {"missing", "corrupt"}
        /\ obs'.op = "fetch_all_predictions_fast" /\ (obs' # obs \/ file' # file))
       => /\ ~obs'.hit
          /\ \E rendered \in BOOLEAN, loaded \in BOOLEAN :
                \E o \in {fetch_all_predictions_fast(Missing, now, obs'.at, obs'.args,
                                                      page, rendered, detail, loaded)} :
                   /\ obs' = ObsOf(obs'.op, obs'.args, obs'.at, o)
                   /\ file' = (IF o.file = Missing THEN file ELSE o.file)
    /\ (/\ lfile.kind \in {"missing", "corrupt"}
        /\ mobs' # mobs)
       => /\ mobs'.from # "local"
          /\ \E o \in {fetch_remote_into_cache(NoFile, bfile, mobs'.force, mobs'.resp, now)} :
                /\ mobs'.ret = o.ret /\ mobs'.from = o.from
                /\ lfile' = (IF o.lfile = NoFile THEN lfile ELSE o.lfile)
    /\ (bfile.kind \in {"missing", "corrupt"} /\ mobs' # mobs)
       => mobs'.from # "bundled"

C17_ReadFailureIsEmptyStore == [][C17_Step]_vars

\* a hybrid cycle has returned records, and the reader has been refreshed,
\* each over an unreadable cache file
C17_Witness ==
    /\ file.kind = "corrupt"
    /\ obs.op = "fetch_all_predictions_fast" /\ obs.ret # <<>>
    /\ mobs.op = "fetch_remote_into_cache" /\ mobs.pre.kind = "corrupt"
    /\ mobs.from = "remote"

\* C18: a forced call is never served from a cache entry and always opens the
\* source; the bypass lasts for that call only: the next call without the
\* flag, made while the entry the forced call wrote is within its TTL, is
\* served from that entry.  Stated of the crawler's cycles and of
\* fetch_remote_into_cache.
C18_Step ==
    /\ (obs'.op \in GateOps /\ obs'.args.force_refresh /\ (obs' # obs \/ file' # file))
       => (~obs'.hit /\ obs'.opened >= 1)
    /\ (/\ obs.op \in GateOps /\ obs.args.force_refresh /\ obs.args.use_cache
        /\ obs.exc = "none" /\ obs.wrote
        /\ obs'.op \in GateOps /\ ~obs'.args.force_refresh /\ obs'.args.use_cache
        /\ FreshHit(_load_cache(file), PredlistKey(_today_kst_str(now)), now)
        /\ _load_cache(file)[PredlistKey(_today_kst_str(now))].ts = _now_kst(obs.at))
       => /\ obs'.hit
          /\ _load_cache(file)[PredlistKey(_today_kst_str(now))].data
               = (IF obs'.op = "fetch_all_predictions_fast" THEN obs'.rows ELSE obs'.ret)
    /\ (mobs'.op = "fetch_remote_into_cache" /\ mobs'.force)
       => mobs'.from # "local"
    /\ (/\ mobs.op = "fetch_remote_into_cache" /\ mobs.force
        /\ mobs.from \in {"remote", "bundled"}
        /\ mobs'.op = "fetch_remote_into_cache" /\ ~mobs'.force
        /\ _is_fresh_file(lfile, CACHE_TTL_MIN, now))
       => (mobs'.from = "local" /\ mobs'.ret = mobs.ret)

C18_ForceRefreshBypasses == [][C18_Step]_vars

\* a forced hybrid cycle has written its entry, and a forced refresh of the
\* reader has replaced a fresh local document by the remote one
C18_Witness ==
    /\ obs.op = "fetch_all_predictions_fast" /\ obs.args.force_refresh
    /\ obs.args.use_cache /\ obs.wrote
    /\ mobs.op = "fetch_remote_into_cache" /\ mobs.force
    /\ mobs.pre.kind = "json" /\ _is_fresh_file(mobs.pre, CACHE_TTL_MIN, mobs.at)
    /\ mobs.pre.data = "A" /\ mobs.ret = "B" /\ mobs.from = "remote"

\* a call of the crawler that may be served from the cache starts in this step
CachedCallStep ==
    /\ obs'.op \in GateOps /\ (obs' # obs \/ file' # file)
    /\ obs'.args.use_cache /\ ~obs'.args.force_refresh

\* the age at the start of the call of today's predlist entry
AgeOfEntry == _now_kst(now) - _load_cache(file)[PredlistKey(_today_kst_str(now))].ts

\* a call of fetch_remote_into_cache that may be served from the local file
CachedRefreshStep ==
    /\ mobs'.op = "fetch_remote_into_cache" /\ mobs' # mobs /\ ~mobs'.force

\* C19 as stated: an entry is fresh exactly while its age does not exceed the
\* TTL, so a call that finds an entry whose age is at most the TTL (equal to
\* it included) is served from it, and a call is served only from such an entry.
C19_AsStatedStep ==
    /\ CachedCallStep
       => (obs'.hit <=> /\ Has(_load_cache(file), PredlistKey(_today_kst_str(now)))
                        /\ AgeOfEntry <= DEFAULT_TTL_MIN)
    /\ CachedRefreshStep
       => /\ mobs'.from = "local" => (lfile.kind # "missing" /\ now - lfile.mtime <= CACHE_TTL_MIN)
          /\ (lfile.kind = "json" /\ lfile.data \in {"A", "B"}
                /\ now - lfile.mtime <= CACHE_TTL_MIN) => mobs'.from = "local"

C19_Step ==
    /\ CachedCallStep
       => (obs'.hit <=> /\ Has(_load_cache(file), PredlistKey(_today_kst_str(now)))
                        /\ AgeOfEntry < DEFAULT_TTL_MIN)
    /\ CachedRefreshStep
       => /\ mobs'.from = "local" => (lfile.kind # "missing" /\ now - lfile.mtime < CACHE_TTL_MIN)
          /\ (lfile.kind = "json" /\ lfile.data \in {"A", "B"}
                /\ now - lfile.mtime < CACHE_TTL_MIN) => mobs'.from = "local"

C20_DetailOnlyForIncomplete ==
    (MergeRan(obs) /\ obs.gate)
    => \A i \in DOMAIN obs.rows :
          (obs.rows[i].s_no \in DOMAIN obs.detailed) <=> ~HasAllFields(obs.rows[i])

\* a call of generate_s_no_list that reached its strategies happens in this
\* step, and it ran them in the given order: the strategies tried are the
\* first n of the order, and the call did what it does when every strategy
\* but the n-th yields nothing (so no later strategy contributed), the n-th
\* yielding identifiers unless it is the last; what the n-th yielded, without
\* its duplicates, is the whole result
LadderFollows(order) ==
    (/\ obs'.op = "generate_s_no_list" /\ (obs' # obs \/ file' # file)
     /\ obs'.tried # <<>>)
    => /\ Len(obs'.tried) <= Len(order)
       /\ obs'.tried = SubSeq(order, 1, Len(obs'.tried))
       /\ \E r \in StrategyResults :
             LET n == Len(obs'.tried)
                 found == [s \in {Strategies[i] : i \in DOMAIN Strategies} |->
                              IF s = order[n] THEN r ELSE <<>>]
             IN  /\ n < Len(order) => r # <<>>
                 /\ r # <<>> => (obs'.exc = "none" /\ obs'.ret = UniqSNos(r, {}))
                 /\ \E o \in {generate_s_no_list(file, now, obs'.args, TRUE, found)} :
                       obs' = ObsOf("generate_s_no_list", obs'.args, now, o)

\* C21 as stated: the strategies are tried in the order structured markup
\* query, scripted in-page evaluation, full-text scan of the raw document,
\* alternate network fetch; the first that yields an identifier supplies the
\* whole result and no later one runs.
C21_LadderOrderAsStated ==
    [][LadderFollows(<<"css", "js", "html", "requests">>)]_vars

\* C21 (amended): the strategies are tried in the order structured markup
\* query, full-text scan of the raw document, scripted in-page evaluation,
\* alternate network fetch; a strategy runs only if every earlier one yielded
\* nothing, and the first that yields an identifier supplies the whole result.
C21_LadderOrder ==
    [][LadderFollows(<<"css", "html", "js", "requests">>)]_vars

\* the scripted evaluation supplied the result after the markup query and the
\* full-text scan had yielded nothing
C21_Witness ==
    /\ obs.op = "generate_s_no_list" /\ obs.exc = "none"
    /\ obs.tried = <<"css", "html", "js">> /\ obs.ret = <<2, 1>>

\* C22: a timeout, a missing element or a network error inside an extraction
\* step is handled as that step producing nothing: no call of the listing
\* pass, of the hybrid cycle or of the identifier discovery ends with an
\* exception.
C22_FailuresNeverPropagate ==
    obs.op \in GateOps \cup {"generate_s_no_list"} => obs.exc = "none"

\* field by field, record a has whatever record b has
AtLeastAsComplete(a, b) == \A k \in Fields : b[k].has => a[k].has

\* C23: the result of a listing extraction holds each identifier at most
\* once, in order of first occurrence, and the record kept for an identifier
\* is the first one extracted for it and is at least as complete as every
\* other record extracted for that identifier.
C23_DuplicateCollapse ==
    (obs.op = "scrape_list_page_predictions" /\ obs.exc = "none" /\ ~obs.hit)
    => LET all == RowsOfSlides(page)
       IN  /\ \A i, j \in DOMAIN obs.ret : obs.ret[i].s_no = obs.ret[j].s_no => i = j
           /\ \A i \in DOMAIN obs.ret :
                 \E n \in DOMAIN all :
                    /\ all[n] = obs.ret[i]
                    /\ \A q \in 1 .. n - 1 : all[q].s_no # all[n].s_no
                    /\ \A q \in DOMAIN all :
                          all[q].s_no = all[n].s_no => AtLeastAsComplete(all[n], all[q])
           /\ \A i, j \in DOMAIN obs.ret :
                 i < j => \E n, q \in DOMAIN all :
                             n < q /\ all[n] = obs.ret[i] /\ all[q] = obs.ret[j]

\* C24: a hybrid cycle loads the cache store exactly once and writes it at
\* most once.
C24_OneReadOneWrite ==
    obs.op = "fetch_all_predictions_fast" => (obs.loads = 1 /\ obs.saves <= 1)

\* C25: a hybrid cycle served entirely from fresh cache entries, with no
\* listing and no detail extraction, leaves the stored predlist entry of the
\* day unchanged, timestamp included.
C25_Step ==
    (/\ obs'.op = "fetch_all_predictions_fast" /\ (obs' # obs \/ file' # file)
     /\ obs'.exc = "none" /\ obs'.hit /\ obs'.opened = 0)
    => \A k \in DOMAIN _load_cache(file) :
          k.ns = "predlist" => (Has(_load_cache(file'), k)
                                /\ _load_cache(file')[k] = _load_cache(file)[k])

C25_HitLeavesEntryUnchanged == [][C25_Step]_vars

\* C26: a call of the listing pass, of the hybrid cycle or of the identifier
\* discovery with use_cache=False performs no write to the cache file.
C26_Step ==
    (/\ obs'.op \in GateOps \cup {"generate_s_no_list"}
     /\ (obs' # obs \/ file' # file)
     /\ ~obs'.args.use_cache)
    => (obs'.saves = 0 /\ file' = file)

C26_NoCacheIsReadOnly == [][C26_Step]_vars

\* C27: every browser session an operation opened is closed before the
\* operation returns or fails, also when its cache write fails: a call whose
\* save has ended, either way, has quit its driver.
C27_SessionRelease ==
    \A w \in DOMAIN wr : wr[w].pc \in {"done", "failed"} => wr[w].quit

----------------------------------------------------------------------------
(* Properties of the reader's choice of records for one date.                *)

\* pred:<d>:<s> is stored as an object whose data is an object
HasDetail(c, d, s) ==
    LET k == RKey("pred", d, s)
    IN  k \in DOMAIN c.m /\ c.m[k].kind = "dict" /\ c.m[k].t = "dict"

DetailIds(c, d) == {k.s : k \in {x \in DOMAIN c.m : x.ns = "pred" /\ x.d = d /\ HasDetail(c, d, x.s)}}

DetailRow(c, d, s) == c.m[RKey("pred", d, s)].v[1]

\* the identifiers s_nos:<d> lists, none when the index is missing or no list
IndexIds(c, d) ==
    LET o == RGet(c, RKey("s_nos", d, ""))
    IN  IF o.kind = "dict" /\ o.t = "list" THEN o.v ELSE <<>>

\* the listed identifiers that have a detail record, in the order of the index
ListedIds(c, d) ==
    LET has(s) == HasDetail(c, d, s) IN SelectSeq(IndexIds(c, d), has)

InIndexOrder(rows, c, d) ==
    LET ids == ListedIds(c, d)
    IN  rows = [i \in 1..Len(ids) |-> DetailRow(c, d, ids[i])]

InAscendingIdOrder(rows, c, d) ==
    /\ Len(rows) = Cardinality(DetailIds(c, d))
    /\ {rows[i] : i \in DOMAIN rows} = {DetailRow(c, d, s) : s \in DetailIds(c, d)}
    /\ \A i, j \in DOMAIN rows : i < j => IdInt(rows[i][2]) < IdInt(rows[j][2])

DetailOrder(rows, c, d) ==
    IF ListedIds(c, d) # <<>> THEN InIndexOrder(rows, c, d)
    ELSE InAscendingIdOrder(rows, c, d)

\* the date whose records a finished get_today_predlist returned
QueriedDate == IF robs.fell THEN robs.latest ELSE SomeStr(rtoday)

PredlistRows(c, d) ==
    LET o == RGet(c, RKey("predlist", d, ""))
    IN  IF o.kind = "dict" /\ o.t = "list" THEN o.v ELSE <<>>

\* rows come from detail records alone when one resolves, and from
\* predlist:<d> only when none does
SourcePriority(r, c, d) ==
    /\ DetailIds(c, d) # {}
       => /\ r.exc = "none"
          /\ r.rows # <<>>
          /\ \A i \in DOMAIN r.rows :
                 r.rows[i] \in {DetailRow(c, d, s) : s \in DetailIds(c, d)}
    /\ (DetailIds(c, d) = {} /\ r.exc = "none") => r.rows = PredlistRows(c, d)

\* C29: get_pred_rows_for_date returns the records of predlist:<D> only when
\* no pred:<D>:<id> detail record resolves; whenever one resolves the result is
\* made of detail records alone, whatever predlist:<D> holds, and this is what
\* a finished get_today_predlist handed to its caller.
C29_ReaderSourcePriority ==
    /\ store.top = "dict"
       => \A d \in DateTokens \cup Todays :
              SourcePriority(get_pred_rows_for_date(store, d), store, d)
    /\ (robs.phase = "done" /\ QueriedDate.has)
       => SourcePriority([exc |-> robs.exc, rows |-> robs.rows], store, QueriedDate.v)

\* a two-record predlist entry and one detail record are stored for today, and
\* the reader returned the one detail record
C29_Witness ==
    /\ robs.phase = "done" /\ robs.exc = "none" /\ ~robs.fell
    /\ Len(PredlistRows(store, rtoday)) = 2
    /\ DetailIds(store, rtoday) = {"1"}
    /\ robs.rows = <<<<rtoday, "1">>>>

====
